---- MODULE Spec2Model ----
(***************************************************************************)
(* pyswashes: the SWASHES class of src/src/pyswashes/pyswashes.py and its  *)
(* variants OneDimensional, PseudoTwoDimensional and TwoDimensional.       *)
(*                                                                         *)
(* Numbers are kept in tenths (1.5 is 15, the int 2 is 20): the only       *)
(* fractions the model needs have one decimal.  A Python value is a record *)
(* [t, v]: its type and its number in tenths.  A token of the solver's     *)
(* text is a record too: a word, or a numeric literal with its sign, its   *)
(* integer part and its fraction digits, so that "1", "1.0" and "1.00"     *)
(* are three texts of one number.                                          *)
(***************************************************************************)
EXTENDS Integers, Sequences, FiniteSets, TLC

VARIABLES
    pc,            \* position in SWASHES.__init__, then "done" or "failed"
    call,          \* the constructor call: class and arguments
    platform,      \* what platform.system() returned to _set_executable
    path,          \* the executables shutil.which could resolve then
    exc,           \* the exception raised, if any
    params,        \* self.params
    swashes_bin,   \* self.swashes_bin
    lookups,       \* number of shutil.which calls made
    spawned,       \* the command lines handed to subprocess.run, in order
    proc,          \* the last finished process: return code, stdout, stderr
    raw_output,    \* self.raw_output, as a sequence of lines
    results,       \* self.results
    raw_comments,  \* self.raw_comments
    dom_params,    \* self.dom_params
    generated_by,  \* self.generated_by
    ret,           \* what the last accessor call returned or raised
    files          \* the file ascii_grid writes

vars == <<pc, call, platform, path, exc, params, swashes_bin, lookups, spawned,
          proc, raw_output, results, raw_comments, dom_params, generated_by,
          ret, files>>

(***************************************************************************)
(* Bounds                                                                  *)
(***************************************************************************)
\* largest number of cells per axis the solver is asked for
MaxCell == 2
\* largest row count asked of OneDimensional.ascii_grid
MaxRows == 3

(***************************************************************************)
(* Python values                                                           *)
(***************************************************************************)
PyInt(n) == [t |-> "int", v |-> 10 * n]
PyFloat(tenths) == [t |-> "float", v |-> tenths]
PyStr == [t |-> "str", v |-> 0]
None == [t |-> "none", v |-> 0]
PyNaN == [t |-> "nan", v |-> 0]

IsNumber(p) == p.t \in {"int", "float"}
\* isinstance(p, int)
IsInstanceInt(p) == p.t = "int"
\* a == b between numbers; None and nan equal no number
PyEq(a, b) == IsNumber(a) /\ IsNumber(b) /\ a.v = b.v
\* float(p) of a number
Float(p) == PyFloat(p.v)
\* int(p) of a number: truncation toward zero
Trunc(p) == IF p.v >= 0 THEN p.v \div 10 ELSE -((-p.v) \div 10)
\* truth value of p (None, 0 and 0.0 are false)
Truthy(p) == p.t = "str" \/ p.t = "nan" \/ (IsNumber(p) /\ p.v # 0)

(***************************************************************************)
(* Tokens of text                                                          *)
(***************************************************************************)
Word(s) == [k |-> "word", s |-> s, sg |-> 1, ip |-> 0, fp |-> <<>>]
Num(sg, ip, fp) == [k |-> "num", s |-> "", sg |-> sg, ip |-> ip, fp |-> fp]
Lit(n) == Num(1, n, <<>>)
Dec(n, d) == Num(1, n, <<d>>)

\* str(p) of a number: an int prints its digits, a float its digits, a point
\* and its decimals
Str(p) ==
    LET a == IF p.v >= 0 THEN p.v ELSE -p.v
        sg == IF p.v >= 0 THEN 1 ELSE -1
    IN  IF p.t = "int" THEN Num(sg, a \div 10, <<>>)
        ELSE IF p.t = "float" THEN Num(sg, a \div 10, <<a % 10>>)
        ELSE IF p.t = "none" THEN Word("None")
        ELSE IF p.t = "nan" THEN Word("nan")
        ELSE Word("b")

ValueError == [t |-> "ValueError", v |-> 0]

\* float(token): the number a literal denotes, to the first decimal; "NaN" is
\* nan; any other word raises ValueError
FloatOfToken(tok) ==
    IF tok.k = "num"
    THEN PyFloat(tok.sg * (10 * tok.ip + (IF tok.fp = <<>> THEN 0 ELSE tok.fp[1])))
    ELSE IF tok.s \in {"NaN", "nan"} THEN PyNaN
    ELSE ValueError

(***************************************************************************)
(* Class constants                                                         *)
(***************************************************************************)
DIMENSION_OK == {10, 15, 20}

\* SWASHES.COLS: solver label -> canonical name
COLS ==
    [l \in {"(i-0.5)*dx", "h[i]", "u[i]", "topo[i]", "q[i]", "topo[i]+h[i]",
            "Fr[i]=Froude", "topo[i]+hc[i]"} |->
        CASE l = "(i-0.5)*dx" -> "x"
          [] l = "h[i]" -> "depth"
          [] l = "u[i]" -> "u"
          [] l = "topo[i]" -> "gd_elev"
          [] l = "q[i]" -> "q"
          [] l = "topo[i]+h[i]" -> "head"
          [] l = "Fr[i]=Froude" -> "Froude"
          [] l = "topo[i]+hc[i]" -> "crit_head"]

\* TwoDimensional.COLS
COLS_2D ==
    [l \in {"(i-0.5)*dx", "(j-0.5)*dy", "h[i][j]", "u[i][j]", "v[i][j]",
            "topo[i][j]+h[i][j]", "topo[i][j]", "||U||[i][j]", "Fr[i][j]",
            "qx[i][j]", "qy[i][j]", "q[i][j]"} |->
        CASE l = "(i-0.5)*dx" -> "x"
          [] l = "(j-0.5)*dy" -> "y"
          [] l = "h[i][j]" -> "depth"
          [] l = "u[i][j]" -> "u"
          [] l = "v[i][j]" -> "v"
          [] l = "topo[i][j]+h[i][j]" -> "head"
          [] l = "topo[i][j]" -> "gd_elev"
          [] l = "||U||[i][j]" -> "U"
          [] l = "Fr[i][j]" -> "Froude"
          [] l = "qx[i][j]" -> "qx"
          [] l = "qy[i][j]" -> "qy"
          [] l = "q[i][j]" -> "q"]

Classes == {"SWASHES", "OneDimensional", "PseudoTwoDimensional", "TwoDimensional"}

\* self.COLS: the class attribute the instance's class resolves to
ColsOf(cls) == IF cls = "TwoDimensional" THEN COLS_2D ELSE COLS

\* self.nan_val
nan_val == PyInt(-99999)

(***************************************************************************)
(* The solver: an external program.  It reads its command line and writes  *)
(* text.  SolverText is the text the interface of the solver describes:    *)
(* metadata comments echoing the command line, one header comment, one     *)
(* data line per cell.  SolverOutputs adds the texts that depart from it   *)
(* in one respect each.                                                    *)
(***************************************************************************)
Cmt(toks) == [c |-> TRUE, toks |-> toks]
Row(toks) == [c |-> FALSE, toks |-> toks]
Meta(label, tok) == Cmt(<<Word(label), tok>>)

\* the value of the i-th argument of a command line, in tenths
ArgVal(argv, i) == FloatOfToken(argv[i]).v

\* the command lines the solver can answer with a solution
Solvable(argv) ==
    /\ Len(argv) \in {6, 7}
    /\ \A i \in 2..Len(argv) : argv[i].k = "num"
    /\ ArgVal(argv, 2) \in DIMENSION_OK
    /\ ArgVal(argv, 6) >= 10
    /\ ArgVal(argv, 2) = 20 => Len(argv) = 7
    /\ Len(argv) = 7 => ArgVal(argv, 7) >= 10

Is2D(argv) == ArgVal(argv, 2) = 20
NX(argv) == ArgVal(argv, 6) \div 10
NY(argv) == IF Is2D(argv) THEN ArgVal(argv, 7) \div 10 ELSE 1

HeaderLabels(argv) ==
    IF ArgVal(argv, 2) = 10
    THEN <<"(i-0.5)*dx", "h[i]", "u[i]", "topo[i]", "q[i]", "topo[i]+h[i]",
           "Fr[i]=Froude", "topo[i]+hc[i]">>
    ELSE IF ArgVal(argv, 2) = 15
    THEN <<"(i-0.5)*dx", "h[i]", "topo[i]", "topo[i]+h[i]">>
    ELSE <<"(i-0.5)*dx", "(j-0.5)*dy", "h[i][j]", "u[i][j]", "v[i][j]",
           "topo[i][j]+h[i][j]", "topo[i][j]", "||U||[i][j]", "Fr[i][j]",
           "qx[i][j]", "qy[i][j]", "q[i][j]">>

HeaderLine(labels) == Cmt([i \in 1..Len(labels) |-> Word(labels[i])])

\* the value printed for cell k in column c; variant 2 prints a NaN and
\* prints whole numbers without a decimal point
DataTok(k, c, variant) ==
    IF variant = 2 /\ k = 1 /\ c \in {2, 3} THEN Word("NaN")
    ELSE IF variant = 2 /\ (k + c) % 3 = 0 THEN Lit(k)
    ELSE Dec(k, c % 10)

\* cell k of the grid, counted x outermost: its x and y indices
CellI(k, ny) == ((k - 1) \div ny) + 1
CellJ(k, ny) == ((k - 1) % ny) + 1

\* the centre of cell i of an axis with unit step: (i - 0.5)
Centre(i) == Dec(i - 1, 5)

DataLine(argv, k, variant) ==
    LET ncol == Len(HeaderLabels(argv))
        ny == NY(argv)
    IN  Row([c \in 1..ncol |->
                IF c = 1 THEN Centre(CellI(k, ny))
                ELSE IF c = 2 /\ Is2D(argv) THEN Centre(CellJ(k, ny))
                ELSE DataTok(k, c, variant)])

\* the data lines, written in the order `order` (a permutation of the cells)
DataLines(argv, order, variant) ==
    [r \in 1..Len(order) |-> DataLine(argv, order[r], variant)]

\* the orders of n cells the model draws from: 1..n, n..1 and 1..n rotated
\* by one cell
Orders(n) ==
    {[r \in 1..n |-> r], [r \in 1..n |-> n + 1 - r], [r \in 1..n |-> (r % n) + 1]}

Natural(n) == [r \in 1..n |-> r]

Echo(argv) ==
    <<Cmt(<<Word("Generated by"), Word("SWASHES")>>),
      Meta("Dimension:", argv[2]), Meta("Type:", argv[3]),
      Meta("Domain:", argv[4]), Meta("Choice:", argv[5])>>

\* the domain comments; ncx and ncy are the tokens printed as cell counts,
\* an empty sequence standing for a count the solver does not print
DomainComments(argv, ncx, ncy) ==
    IF Is2D(argv)
    THEN <<Meta("Length of the domain:", Lit(NX(argv))),
           Meta("Width of the domain:", Lit(NY(argv))),
           Meta("Space step in x:", Lit(1)),
           Meta("Space step in y:", Lit(1))>>
         \o [i \in 1..Len(ncx) |-> Meta("Number of cells in x:", ncx[i])]
         \o [i \in 1..Len(ncy) |-> Meta("Number of cells in y:", ncy[i])]
    ELSE <<Meta("Length of the domain:", Lit(NX(argv))),
           Meta("Space step:", Lit(1))>>
         \o [i \in 1..Len(ncx) |-> Meta("Number of cells:", ncx[i])]

Separator == Cmt(<<>>)

SolverText(argv, order, variant) ==
    Echo(argv)
    \o DomainComments(argv, <<argv[6]>>, IF Is2D(argv) THEN <<argv[7]>> ELSE <<>>)
    \o <<Separator, HeaderLine(HeaderLabels(argv))>>
    \o DataLines(argv, order, variant)

\* the texts a zero-status run can print for a solvable command line
SolverOutputs(argv) ==
    LET n == NX(argv) * NY(argv)
        nat == Natural(n)
        head == <<Separator, HeaderLine(HeaderLabels(argv))>>
        rows == DataLines(argv, nat, 1)
        ncy == IF Is2D(argv) THEN <<argv[7]>> ELSE <<>>
        dom == DomainComments(argv, <<argv[6]>>, ncy)
    IN  {SolverText(argv, o, v) :
            o \in (IF Is2D(argv) THEN Orders(n) ELSE {nat}), v \in {1, 2}}
        \cup
        { \* a type echoed that is not the one asked for
          <<Echo(argv)[1], Echo(argv)[2], Meta("Type:", Lit(NX(argv) + 7))>>
              \o dom \o head \o rows,
          \* no cell count printed
          Echo(argv) \o DomainComments(argv, <<>>, <<>>) \o head \o rows,
          \* another cell count in x
          Echo(argv) \o DomainComments(argv, <<Lit(NX(argv) + 1)>>, ncy)
              \o head \o rows,
          \* no cell count in y
          Echo(argv) \o DomainComments(argv, <<argv[6]>>, <<>>) \o head \o rows,
          \* another cell count in y
          Echo(argv) \o DomainComments(argv, <<argv[6]>>, <<Lit(NY(argv) + 1)>>)
              \o head \o rows,
          \* a label the dictionaries do not know
          Echo(argv) \o dom
              \o <<Separator, HeaderLine(HeaderLabels(argv) \o <<"zeta[i]">>)>>
              \o rows,
          \* the labels of the one-dimensional solutions
          Echo(argv) \o dom
              \o <<Separator, HeaderLine(<<"(i-0.5)*dx", "h[i]", "topo[i]">>)>>
              \o [r \in 1..n |-> Row(<<Centre(r), Dec(r, 1), Dec(r, 2)>>)],
          \* a comment after the data
          Echo(argv) \o dom \o head \o rows \o <<Cmt(<<Word("end")>>)>>,
          \* the data line of the last cell not printed
          Echo(argv) \o dom \o head \o SubSeq(rows, 1, n - 1),
          \* comments and nothing else
          Echo(argv) \o dom,
          \* one comment line, one data line, nothing
          <<Meta("Number of cells:", argv[6])>>,
          <<DataLine(argv, 1, 1)>>,
          <<>> }

\* what a run of the solver can end with: a status, the text on stdout and
\* whether anything was written on stderr
ProcResults(argv) ==
    {[returncode |-> 1, stdout |-> <<>>, stderr |-> e] : e \in {"", "error"}}
    \cup
    (IF Solvable(argv)
     THEN {[returncode |-> 0, stdout |-> o, stderr |-> ""] : o \in SolverOutputs(argv)}
          \cup {[returncode |-> 0, stdout |-> SolverText(argv, Natural(NX(argv) * NY(argv)), 1),
                 stderr |-> "warning"]}
     ELSE {})

(***************************************************************************)
(* SWASHES.__init__                                                        *)
(***************************************************************************)
NoExc == [type |-> "none", at |-> "", stderr |-> "", params |-> <<>>]
Raise(type, at) == [type |-> type, at |-> at, stderr |-> "", params |-> <<>>]

\* float(dimension) in self.DIMENSION_OK
DimensionOk(dimension) == Float(dimension).v \in DIMENSION_OK

\* input_int = [stype, domain, choice, num_cell_x] (+ num_cell_y if not None)
InputInt(c) ==
    <<c.stype, c.domain, c.choice, c.num_cell_x>>
    \o (IF c.num_cell_y # None THEN <<c.num_cell_y>> ELSE <<>>)

\* any() where the code says all()
AllInt_Any(input_int) == \E i \in 1..Len(input_int) : IsInstanceInt(input_int[i])

\* all(isinstance(p, int) for p in input_int)
AllInt(input_int) == \A i \in 1..Len(input_int) : IsInstanceInt(input_int[i])

\* int(dimension) == 2 and not num_cell_y
MissingCellY(dimension, num_cell_y) == Trunc(dimension) = 2 /\ ~Truthy(num_cell_y)

\* the integer check made before the dimension check
SanityCheck_IntegerFirst(c) ==
    IF ~AllInt(InputInt(c)) THEN Raise("ValueError", "integer")
    ELSE IF ~DimensionOk(c.dimension) THEN Raise("ValueError", "dimension")
    ELSE IF MissingCellY(c.dimension, c.num_cell_y) THEN Raise("ValueError", "num_cell_y")
    ELSE NoExc

\* the input sanity check: the exception it raises, or NoExc
SanityCheck(c) ==
    IF ~DimensionOk(c.dimension) THEN Raise("ValueError", "dimension")
    ELSE IF ~AllInt(InputInt(c)) THEN Raise("ValueError", "integer")
    ELSE IF MissingCellY(c.dimension, c.num_cell_y) THEN Raise("ValueError", "num_cell_y")
    ELSE NoExc

\* the name _set_executable settles on
ExecutableName(path_to_bin, os_name) ==
    IF path_to_bin # "" THEN path_to_bin
    ELSE IF os_name = "Windows" THEN "swashes.exe"
    ELSE "swashes"

\* a lookup that never fails
Which_Always(name, on_path) == TRUE

\* shutil.which(name) finds something
Which(name, on_path) == name \in on_path

\* the command line built from self.params[1:]: the dimension left out
RunCmd_NoDimension(bin, ps) ==
    <<Word(bin)>> \o [i \in 1..(Len(ps) - 1) |-> Str(ps[i + 1])]

\* run_cmd = [self.swashes_bin] + [str(p) for p in self.params]
RunCmd(bin, ps) == <<Word(bin)>> \o [i \in 1..Len(ps) |-> Str(ps[i])]

\* a status of 1 taken for success
CalledProcessError_Above1(p) == p.returncode > 1

\* subprocess.run(..., check=True) raises CalledProcessError
CalledProcessError(p) == p.returncode # 0

(***************************************************************************)
(* SWASHES._read_output                                                    *)
(***************************************************************************)
\* [self.COLS[h] for h in raw_col_headers] finds every label
KnownLabels(toks, cols) ==
    \A i \in 1..Len(toks) : toks[i].k = "word" /\ toks[i].s \in DOMAIN cols

\* the last label of the header line left out
ColHeaders_DropLast(toks, cols) == [i \in 1..(Len(toks) - 1) |-> Word(cols[toks[i].s])]

ColHeaders(toks, cols) == [i \in 1..Len(toks) |-> Word(cols[toks[i].s])]

\* next_line as the loop leaves it at index idx: the following line, or, on
\* the last line, what the previous turn left (the last line itself); on a
\* single line it is not bound
NextLineBound(out, idx) == idx < Len(out) \/ idx > 1
NextLine(out, idx) == IF idx < Len(out) THEN out[idx + 1] ELSE out[idx]

RECURSIVE ReadLines(_, _, _, _, _)
ReadLines(out, idx, res, com, cols) ==
    IF idx > Len(out) THEN [exc |-> NoExc, results |-> res, raw_comments |-> com]
    ELSE LET cur == out[idx]
         IN  IF ~cur.c
             THEN ReadLines(out, idx + 1, Append(res, cur.toks), com, cols)
             ELSE IF ~NextLineBound(out, idx)
             THEN [exc |-> Raise("NameError", "next_line"),
                   results |-> res, raw_comments |-> com]
             ELSE IF NextLine(out, idx).c
             THEN ReadLines(out, idx + 1, res, Append(com, cur.toks), cols)
             ELSE IF ~KnownLabels(cur.toks, cols)
             THEN [exc |-> Raise("KeyError", "COLS"),
                   results |-> res, raw_comments |-> com]
             ELSE ReadLines(out, idx + 1, Append(res, ColHeaders(cur.toks, cols)),
                            com, cols)

read_output(out, cols) == ReadLines(out, 1, <<>>, <<>>, cols)

(***************************************************************************)
(* SWASHES._read_comments                                                  *)
(***************************************************************************)
IndexError == [t |-> "IndexError", v |-> 0]

\* the float after the final ':' of a comment; the label is the comment's
\* first token and ends with the final ':'
get_number_from_str(toks) ==
    IF Len(toks) < 2 THEN IndexError ELSE FloatOfToken(toks[2])

startswith(toks, label) == Len(toks) > 0 /\ toks[1] = Word(label)

CheckedLabels == <<"Dimension:", "Type:", "Domain:", "Choice:">>

\* sol_param_keys: the key a label fills, "" for a label that fills none
SolParamKey(label) ==
    CASE label = "Length of the domain:" -> "length"
      [] label = "Width of the domain:" -> "width"
      [] label \in {"Space step in x:", "Space step:"} -> "dx"
      [] label = "Space step in y:" -> "dy"
      [] label \in {"Number of cells in x:", "Number of cells:"} -> "ncellx"
      [] label = "Number of cells in y:" -> "ncelly"
      [] OTHER -> ""

NoDomParams ==
    [length |-> None, width |-> None, dx |-> None, dy |-> None,
     ncellx |-> None, ncelly |-> None]

IsError(val) == val.t \in {"ValueError", "IndexError"}

\* only the dimension's echo is compared
CheckedIndex_DimensionOnly(toks) == IF startswith(toks, CheckedLabels[1]) THEN 1 ELSE 0

\* the index in self.params that a checked label is compared with, 0 if the
\* comment starts with none of them
CheckedIndex(toks) ==
    IF \E i \in 1..4 : startswith(toks, CheckedLabels[i])
    THEN CHOOSE i \in 1..4 : startswith(toks, CheckedLabels[i])
    ELSE 0

\* one turn of the loop over self.raw_comments
ReadComment(toks, ps, dp, gen) ==
    LET val == get_number_from_str(toks)
        idx == CheckedIndex(toks)
        key == IF Len(toks) > 0 /\ toks[1].k = "word" THEN SolParamKey(toks[1].s) ELSE ""
        gen2 == IF startswith(toks, "Generated by") THEN toks ELSE gen
    IN  IF toks = <<>> THEN [exc |-> NoExc, dom_params |-> dp, generated_by |-> gen]
        ELSE IF idx # 0 /\ IsError(val)
        THEN [exc |-> Raise(val.t, "get_number_from_str"), dom_params |-> dp,
              generated_by |-> gen2]
        ELSE IF idx # 0 /\ ~PyEq(val, Float(ps[idx]))
        THEN [exc |-> Raise("AssertionError", CheckedLabels[idx]), dom_params |-> dp,
              generated_by |-> gen2]
        ELSE IF key # "" /\ IsError(val)
        THEN [exc |-> Raise(val.t, "get_number_from_str"), dom_params |-> dp,
              generated_by |-> gen2]
        ELSE [exc |-> NoExc,
              dom_params |-> IF key # "" THEN [dp EXCEPT ![key] = val] ELSE dp,
              generated_by |-> gen2]

RECURSIVE ReadCommentsFrom(_, _, _, _, _)
ReadCommentsFrom(com, i, ps, dp, gen) ==
    IF i > Len(com) THEN [exc |-> NoExc, dom_params |-> dp, generated_by |-> gen]
    ELSE LET r == ReadComment(com[i], ps, dp, gen)
         IN  IF r.exc # NoExc THEN r
             ELSE ReadCommentsFrom(com, i + 1, ps, r.dom_params, r.generated_by)

\* "Verify domain parameters": the exception the two final checks raise
VerifyDomain(dp, ps) ==
    IF ~PyEq(dp.ncellx, Float(ps[5])) THEN Raise("AssertionError", "ncellx")
    ELSE IF dp.ncelly = None THEN NoExc
    ELSE IF Len(ps) < 6 THEN Raise("IndexError", "params[5]")
    ELSE IF ~PyEq(dp.ncelly, Float(ps[6])) THEN Raise("AssertionError", "ncelly")
    ELSE NoExc

\* the loop's outcome r, then the two final checks when the loop raised nothing
Verified(r, ps) ==
    IF r.exc # NoExc THEN r
    ELSE [r EXCEPT !.exc = VerifyDomain(r.dom_params, ps)]

read_comments(com, ps) ==
    Verified(ReadCommentsFrom(com, 1, ps, NoDomParams, <<>>), ps)

(***************************************************************************)
(* Accessors: cols, csv, dataframe, np_array                               *)
(***************************************************************************)
Comma == [k |-> "sep", s |-> ",", sg |-> 1, ip |-> 0, fp |-> <<>>]
Linesep == [k |-> "sep", s |-> "linesep", sg |-> 1, ip |-> 0, fp |-> <<>>]

\* sep.join(parts), the parts and the result being sequences of tokens
RECURSIVE Join(_, _)
Join(parts, sep) ==
    IF parts = <<>> THEN <<>>
    ELSE IF Len(parts) = 1 THEN parts[1]
    ELSE parts[1] \o <<sep>> \o Join(Tail(parts), sep)

\* the header row left out of the text
csv_SkipsHeader(res) ==
    Join([i \in 1..(Len(res) - 1) |->
             Join([j \in 1..Len(res[i + 1]) |-> <<res[i + 1][j]>>], Comma)],
         Linesep)

\* SWASHES.csv: ','.join(line) for each line, joined by os.linesep
csv(res) ==
    Join([i \in 1..Len(res) |->
             Join([j \in 1..Len(res[i]) |-> <<res[i][j]>>], Comma)],
         Linesep)

\* text.split(sep): the runs of tokens between the separators
Split(text, sep) ==
    LET at == {i \in 1..Len(text) : text[i] = sep}
        \* the place of the k-th separator; 0 and Len(text) + 1 bound the text
        Place(k) ==
            IF k = 0 THEN 0
            ELSE IF k > Cardinality(at) THEN Len(text) + 1
            ELSE CHOOSE i \in at : Cardinality({j \in at : j < i}) = k - 1
    IN  [k \in 1..(Cardinality(at) + 1) |->
            SubSeq(text, Place(k - 1) + 1, Place(k) - 1)]

\* the lines of a delimited text that are not blank, each split into fields
CsvLines(text) ==
    LET ls == Split(text, Linesep)
        keep == SelectSeq(ls, LAMBDA l : l # <<>>)
    IN  [i \in 1..Len(keep) |-> Split(keep[i], Comma)]

\* a field is the run of tokens between two separators: one token, or the
\* empty text; the reader takes an empty field for a missing value
FieldToken(f) == IF Len(f) = 1 THEN f[1] ELSE Word("NaN")

\* the value the reader gives a field of a column: numbers when every field
\* of the column is numeric, the texts otherwise
ParseField(rows, r, c) ==
    IF \A q \in 1..Len(rows) :
           c <= Len(rows[q]) => ~IsError(FloatOfToken(FieldToken(rows[q][c])))
    THEN FloatOfToken(FieldToken(rows[r][c]))
    ELSE PyStr

\* the frame of the lines ls: the first line names the columns, the first k
\* columns key the rows
FrameOf(ls, k) ==
    IF ls = <<>>
    THEN [exc |-> "EmptyDataError", index_names |-> <<>>, index |-> <<>>,
          columns |-> <<>>, data |-> <<>>]
    ELSE IF Len(ls[1]) < k
    THEN [exc |-> "IndexError", index_names |-> <<>>, index |-> <<>>,
          columns |-> <<>>, data |-> <<>>]
    ELSE LET names == [i \in 1..Len(ls[1]) |-> FieldToken(ls[1][i])]
             rows == Tail(ls)
             n == Len(names)
         IN  [exc |-> "",
              index_names |-> SubSeq(names, 1, k),
              columns |-> SubSeq(names, k + 1, n),
              index |-> [r \in 1..Len(rows) |->
                            [c \in 1..k |-> ParseField(rows, r, c)]],
              data |-> [r \in 1..Len(rows) |->
                           [c \in 1..(n - k) |-> ParseField(rows, r, k + c)]]]

\* pandas.read_csv(text, index_col=0 .. k-1)
read_csv(text, k) == FrameOf(CsvLines(text), k)

\* the number of index columns of the class's dataframe()
IndexCols(cls) == IF cls = "TwoDimensional" THEN 2 ELSE 1

\* SWASHES.dataframe and TwoDimensional.dataframe
dataframe(cls, res) == read_csv(csv(res), IndexCols(cls))

\* the position of a name in a sequence of names, 0 when absent
PosOf(names, name) ==
    IF \E i \in 1..Len(names) : names[i] = name
    THEN CHOOSE i \in 1..Len(names) :
             names[i] = name /\ \A j \in 1..(i - 1) : names[j] # name
    ELSE 0

Result(e, val) == [exc |-> e, val |-> val]

\* df[value].values
GetItem(df, value) ==
    LET c == PosOf(df.columns, Word(value))
    IN  IF df.exc # "" THEN Result(df.exc, <<>>)
        ELSE IF c = 0 THEN Result("KeyError", <<>>)
        ELSE Result("", [r \in 1..Len(df.data) |-> df.data[r][c]])

\* SWASHES.np_array
np_array_base(cls, res, value) ==
    IF res = <<>> THEN Result("IndexError", <<>>)
    ELSE IF PosOf(res[1], Word(value)) = 0 THEN Result("ValueError", <<>>)
    ELSE GetItem(dataframe(cls, res), value)

\* the distinct numbers of a sequence of values, ascending
RECURSIVE Ascending(_)
Ascending(S) ==
    IF S = {} THEN <<>>
    ELSE LET m == CHOOSE x \in S : \A y \in S : x <= y
         IN  <<m>> \o Ascending(S \ {m})

\* df.pivot(index=ix, columns=cx, values=vx) of a frame whose columns are the
\* sequences of `table` (one sequence of values per name in `names`)
pivot(names, table, ix, cx, vx) ==
    LET pi == PosOf(names, Word(ix))
        pcx == PosOf(names, Word(cx))
        pv == PosOf(names, Word(vx))
        n == Len(table)
    IN  IF pi = 0 \/ pcx = 0 \/ pv = 0 THEN Result("KeyError", <<>>)
        ELSE IF \E r, q \in 1..n :
                    r # q /\ table[r][pi] = table[q][pi] /\ table[r][pcx] = table[q][pcx]
        THEN Result("ValueError", <<>>)
        ELSE LET ys == Ascending({table[r][pi].v : r \in 1..n})
                 xs == Ascending({table[r][pcx].v : r \in 1..n})
                 At(j, i) ==
                     LET hit == {r \in 1..n : table[r][pi].v = ys[j] /\ table[r][pcx].v = xs[i]}
                     IN  IF hit = {} THEN PyNaN ELSE table[CHOOSE r \in hit : TRUE][pv]
             IN  Result("", [j \in 1..Len(ys) |-> [i \in 1..Len(xs) |-> At(j, i)]])

\* df.reset_index().pivot(index=ix, columns=cx, values=vx).values
ResetIndexPivot(df, ix, cx, vx) ==
    IF df.exc # "" THEN Result(df.exc, <<>>)
    ELSE pivot(df.index_names \o df.columns,
               [r \in 1..Len(df.data) |-> df.index[r] \o df.data[r]],
               ix, cx, vx)

\* the pivot made with x as the index and y as the columns
np_array_2d_Swapped(cls, res, value) ==
    ResetIndexPivot(dataframe(cls, res), "x", "y", value)

\* TwoDimensional.np_array: reset_index, then pivot by y and x
np_array_2d(cls, res, value) ==
    ResetIndexPivot(dataframe(cls, res), "y", "x", value)

\* the np_array the class resolves to
np_array(cls, res, value) ==
    IF cls = "TwoDimensional" THEN np_array_2d(cls, res, value)
    ELSE np_array_base(cls, res, value)

\* SWASHES.np_topo and SWASHES.np_depth
np_topo(cls, res) == np_array(cls, res, "gd_elev")
np_depth(cls, res) == np_array(cls, res, "depth")

(***************************************************************************)
(* OneDimensional.ascii_grid                                               *)
(***************************************************************************)
\* nrows when the caller gives none
DefaultNRows == 3

\* '%.6f' % value
Fmt6(val) ==
    LET a == IF val.v >= 0 THEN val.v ELSE -val.v
    IN  Num(IF val.v >= 0 THEN 1 ELSE -1, a \div 10, <<a % 10, 0, 0, 0, 0, 0>>)

\* arr[np.isnan(arr)] = self.nan_val
ReplaceNaN(arr) == [i \in 1..Len(arr) |-> IF arr[i] = PyNaN THEN Float(nan_val) ELSE arr[i]]

\* the padding rows filled with zeros (mode='constant')
PadEdge_Zeros(arr, nrows) ==
    [r \in 1..nrows |-> IF r = nrows THEN arr ELSE [i \in 1..Len(arr) |-> PyFloat(0)]]

\* np.pad(arr[np.newaxis], ((nrows-1, 0), (0, 0)), mode='edge')
PadEdge(arr, nrows) == [r \in 1..nrows |-> arr]

NoFile == [exists |-> FALSE]

\* the header and the rows np.savetxt writes
GridFile(ncols, nrows, cellsize, grid) ==
    [exists |-> TRUE, NCOLS |-> ncols, NROWS |-> nrows,
     XLLCORNER |-> Dec(0, 0), YLLCORNER |-> Dec(0, 0),
     CELLSIZE |-> cellsize, NODATA_VALUE |-> Str(nan_val),
     rows |-> [r \in 1..Len(grid) |-> [c \in 1..Len(grid[r]) |-> Fmt6(grid[r][c])]]]

\* the body of ascii_grid once self.np_array(value) has returned a
SaveGrid(a, dp, nrows, old) ==
    IF a.exc # "" THEN Result(a.exc, old)
    ELSE IF \E i \in 1..Len(a.val) : a.val[i] = PyStr THEN Result("TypeError", old)
    ELSE IF nrows < 1 THEN Result("ValueError", old)
    ELSE LET arr == PadEdge(ReplaceNaN(a.val), nrows)
         IN  IF nrows # Len(arr) \/ Trunc(dp.ncellx) # Len(arr[1])
             THEN Result("AssertionError", old)
             ELSE Result("", GridFile(Trunc(dp.ncellx), nrows, Str(dp.dx), arr))

\* what ascii_grid raises ("" for nothing) and the file it leaves
ascii_grid(cls, res, dp, value, nrows, old) ==
    SaveGrid(np_array(cls, res, value), dp, nrows, old)

(***************************************************************************)
(* TwoDimensional.ascii_grid                                               *)
(***************************************************************************)
\* ndarr[np.isnan(ndarr)] = self.nan_val, row by row
ReplaceNaN_2d(ndarr) == [j \in 1..Len(ndarr) |-> ReplaceNaN(ndarr[j])]

\* the header and the rows np.savetxt writes
GridFile_2d(ncols, nrows, dx, dy, grid) ==
    [exists |-> TRUE, NCOLS |-> ncols, NROWS |-> nrows,
     XLLCORNER |-> Dec(0, 0), YLLCORNER |-> Dec(0, 0),
     DX |-> dx, DY |-> dy, NODATA_VALUE |-> Str(nan_val),
     rows |-> [r \in 1..Len(grid) |-> [c \in 1..Len(grid[r]) |-> Fmt6(grid[r][c])]]]

\* ndarr.shape[1] of the pivot: an empty pivot has no column
Shape1(ndarr) == IF ndarr = <<>> THEN 0 ELSE Len(ndarr[1])

\* the array written without the two shape assertions
SaveGrid_2d_Unchecked(a, dp, old) ==
    IF a.exc # "" THEN Result(a.exc, old)
    ELSE IF \E j \in 1..Len(a.val) : \E i \in 1..Len(a.val[j]) : a.val[j][i] = PyStr
    THEN Result("TypeError", old)
    ELSE IF ~IsNumber(dp.ncellx) \/ ~IsNumber(dp.ncelly) THEN Result("TypeError", old)
    ELSE Result("", GridFile_2d(Trunc(dp.ncellx), Trunc(dp.ncelly),
                                Str(dp.dx), Str(dp.dy), ReplaceNaN_2d(a.val)))

\* the body of ascii_grid once self.np_array(value) has returned a
SaveGrid_2d(a, dp, old) ==
    IF a.exc # "" THEN Result(a.exc, old)
    ELSE IF \E j \in 1..Len(a.val) : \E i \in 1..Len(a.val[j]) : a.val[j][i] = PyStr
    THEN Result("TypeError", old)
    ELSE IF ~IsNumber(dp.ncellx) THEN Result("TypeError", old)
    ELSE IF Trunc(dp.ncellx) # Shape1(a.val) THEN Result("AssertionError", old)
    ELSE IF ~IsNumber(dp.ncelly) THEN Result("TypeError", old)
    ELSE IF Trunc(dp.ncelly) # Len(a.val) THEN Result("AssertionError", old)
    ELSE Result("", GridFile_2d(Trunc(dp.ncellx), Trunc(dp.ncelly),
                                Str(dp.dx), Str(dp.dy), ReplaceNaN_2d(a.val)))

\* what TwoDimensional.ascii_grid raises ("" for nothing) and the file it leaves
ascii_grid_2d(cls, res, dp, value, old) ==
    SaveGrid_2d(np_array(cls, res, value), dp, old)

(***************************************************************************)
(* The state machine                                                       *)
(***************************************************************************)
Dimensions == {PyInt(1), PyFloat(15), PyInt(2), PyFloat(20), PyFloat(12), PyInt(3)}
STypes == {PyInt(1), PyStr}
Domains == {PyInt(2), PyFloat(20)}
Choices == {PyInt(3), None}
CellsX == {PyInt(n) : n \in 0..MaxCell} \cup {PyFloat(20)}
CellsY == {None, PyStr} \cup {PyInt(n) : n \in -1..MaxCell}
Bins == {"", "this_is_not_swashes", "/opt/swashes/bin/swashes"}
Platforms == {"Linux", "Windows"}
Paths == {{}, {"swashes", "/opt/swashes/bin/swashes"}, {"swashes.exe"}}
Values == {"depth", "gd_elev", "x", "not_the_right_str"}

\* the column names the grid writers are called with
GridValues == {"depth", "not_the_right_str"}

NoCall ==
    [cls |-> "", dimension |-> None, stype |-> None, domain |-> None,
     choice |-> None, num_cell_x |-> None, num_cell_y |-> None, swashes_bin |-> ""]

NoRet == [op |-> "", arg |-> "", exc |-> "", val |-> <<>>, again |-> FALSE]

Init ==
    /\ pc = "idle"
    /\ call = NoCall
    /\ platform = ""
    /\ path = {}
    /\ exc = NoExc
    /\ params = <<>>
    /\ swashes_bin = ""
    /\ lookups = 0
    /\ spawned = <<>>
    /\ proc = [returncode |-> 0, stdout |-> <<>>, stderr |-> ""]
    /\ raw_output = <<>>
    /\ results = <<>>
    /\ raw_comments = <<>>
    /\ dom_params = NoDomParams
    /\ generated_by = <<>>
    /\ ret = NoRet
    /\ files = NoFile

\* the dimension and the num_cell_y each class hands to SWASHES.__init__
ClassDimensions(cls) ==
    CASE cls = "OneDimensional" -> {PyFloat(10)}
      [] cls = "PseudoTwoDimensional" -> {PyFloat(15)}
      [] cls = "TwoDimensional" -> {PyFloat(20)}
      [] OTHER -> Dimensions

ClassCellsY(cls) ==
    IF cls \in {"OneDimensional", "PseudoTwoDimensional"} THEN {None} ELSE CellsY

\* a constructor is called
New ==
    /\ pc = "idle"
    /\ \E cls \in Classes, st \in STypes, dm \in Domains, ch \in Choices,
          nx \in CellsX, b \in Bins :
        \E d \in ClassDimensions(cls), ny \in ClassCellsY(cls) :
            call' = [cls |-> cls, dimension |-> d, stype |-> st, domain |-> dm,
                     choice |-> ch, num_cell_x |-> nx, num_cell_y |-> ny,
                     swashes_bin |-> b]
    /\ pc' = "sanity_check"
    /\ UNCHANGED <<platform, path, exc, params, swashes_bin, lookups, spawned,
                   proc, raw_output, results, raw_comments, dom_params,
                   generated_by, ret, files>>

\* the input sanity check and self.params
Validate ==
    /\ pc = "sanity_check"
    /\ exc' = SanityCheck(call)
    /\ IF exc' = NoExc
       THEN pc' = "set_executable" /\ params' = <<call.dimension>> \o InputInt(call)
       ELSE pc' = "failed" /\ UNCHANGED params
    /\ UNCHANGED <<call, platform, path, swashes_bin, lookups, spawned, proc,
                   raw_output, results, raw_comments, dom_params, generated_by,
                   ret, files>>

\* self._set_executable(path_to_bin=swashes_bin), then the attributes
\* __init__ sets before it computes
SetExecutable ==
    /\ pc = "set_executable"
    /\ platform' \in Platforms
    /\ path' \in Paths
    /\ swashes_bin' = ExecutableName(call.swashes_bin, platform')
    /\ lookups' = lookups + 1
    /\ IF Which(swashes_bin', path')
       THEN pc' = "compute" /\ UNCHANGED exc
       ELSE pc' = "failed" /\ exc' = Raise("RuntimeError", "not found")
    /\ dom_params' = NoDomParams
    /\ generated_by' = <<>>
    /\ results' = <<>>
    /\ raw_comments' = <<>>
    /\ UNCHANGED <<call, params, spawned, proc, raw_output, ret, files>>

\* self._compute(): the solver runs, and ends one of the ways it can
Compute ==
    /\ pc = "compute"
    /\ LET run_cmd == RunCmd(swashes_bin, params)
       IN  /\ spawned' = Append(spawned, run_cmd)
           /\ \E p \in ProcResults(run_cmd) :
                /\ proc' = p
                /\ IF CalledProcessError(p)
                   THEN /\ pc' = "failed"
                        /\ exc' = [type |-> "RuntimeError", at |-> "swashes returned an error",
                                   stderr |-> p.stderr, params |-> params]
                        /\ UNCHANGED raw_output
                   ELSE /\ pc' = "read_output"
                        /\ raw_output' = p.stdout
                        /\ UNCHANGED exc
    /\ UNCHANGED <<call, platform, path, params, swashes_bin, lookups, results,
                   raw_comments, dom_params, generated_by, ret, files>>

\* self._read_output()
ReadOutput ==
    /\ pc = "read_output"
    /\ \E r \in {read_output(raw_output, ColsOf(call.cls))} :
           /\ results' = r.results
           /\ raw_comments' = r.raw_comments
           /\ exc' = r.exc
           /\ pc' = IF r.exc = NoExc THEN "read_comments" ELSE "failed"
    /\ UNCHANGED <<call, platform, path, params, swashes_bin, lookups, spawned,
                   proc, raw_output, dom_params, generated_by, ret, files>>

\* self._read_comments()
ReadComments ==
    /\ pc = "read_comments"
    /\ \E r \in {read_comments(raw_comments, params)} :
           /\ dom_params' = r.dom_params
           /\ generated_by' = r.generated_by
           /\ exc' = r.exc
           /\ pc' = IF r.exc = NoExc THEN "done" ELSE "failed"
    /\ UNCHANGED <<call, platform, path, params, swashes_bin, lookups, spawned,
                   proc, raw_output, results, raw_comments, ret, files>>

\* an accessor that reads the solver's text again into self.results
Frame_ReadsAgain ==
    /\ pc' = "returned"
    /\ results' = results \o results
    /\ UNCHANGED <<call, platform, path, exc, params, swashes_bin, lookups,
                   spawned, proc, raw_output, raw_comments, dom_params,
                   generated_by>>

\* an accessor call leaves the object as it is; the call is then pending
\* until the caller has taken what it returned or raised
Frame ==
    /\ pc' = "returned"
    /\ UNCHANGED <<call, platform, path, exc, params, swashes_bin, lookups,
                   spawned, proc, raw_output, results, raw_comments, dom_params,
                   generated_by>>

\* cols()
Cols ==
    /\ pc = "done"
    /\ ret' = [op |-> "cols", arg |-> "", again |-> FALSE,
               exc |-> IF results = <<>> THEN "IndexError" ELSE "",
               val |-> IF results = <<>> THEN <<>> ELSE results[1]]
    /\ UNCHANGED files
    /\ Frame

\* csv()
Csv ==
    /\ pc = "done"
    /\ ret' = [op |-> "csv", arg |-> "", again |-> FALSE, exc |-> "", val |-> csv(results)]
    /\ UNCHANGED files
    /\ Frame

\* dataframe()
Dataframe ==
    /\ pc = "done"
    /\ \E df \in {dataframe(call.cls, results)} :
           ret' = [op |-> "dataframe", arg |-> "", again |-> FALSE,
                   exc |-> df.exc, val |-> df]
    /\ UNCHANGED files
    /\ Frame

\* np_array(value)
NpArray ==
    /\ pc = "done"
    /\ \E value \in Values :
        \E a \in {np_array(call.cls, results, value)} :
            ret' = [op |-> "np_array", arg |-> value, again |-> FALSE,
                    exc |-> a.exc, val |-> a.val]
    /\ UNCHANGED files
    /\ Frame

\* np_topo()
NpTopo ==
    /\ pc = "done"
    /\ \E a \in {np_topo(call.cls, results)} :
           ret' = [op |-> "np_topo", arg |-> "", again |-> FALSE,
                   exc |-> a.exc, val |-> a.val]
    /\ UNCHANGED files
    /\ Frame

\* np_depth()
NpDepth ==
    /\ pc = "done"
    /\ \E a \in {np_depth(call.cls, results)} :
           ret' = [op |-> "np_depth", arg |-> "", again |-> FALSE,
                   exc |-> a.exc, val |-> a.val]
    /\ UNCHANGED files
    /\ Frame

\* OneDimensional.ascii_grid(value, filename, nrows): nrows -1 stands for a
\* call that gives no nrows
AsciiGrid ==
    /\ pc = "done"
    /\ call.cls = "OneDimensional"
    /\ \E value \in GridValues, given \in -1..MaxRows :
        \E nrows \in {IF given = -1 THEN DefaultNRows ELSE given} :
            \E g \in {ascii_grid(call.cls, results, dom_params, value, nrows, files)} :
                /\ ret' = [op |-> "ascii_grid", arg |-> value, again |-> FALSE,
                           exc |-> g.exc, val |-> <<given, nrows>>]
                /\ files' = g.val
    /\ Frame

\* TwoDimensional.ascii_grid(value, filename)
AsciiGrid2D ==
    /\ pc = "done"
    /\ call.cls = "TwoDimensional"
    /\ \E value \in GridValues :
        \E g \in {ascii_grid_2d(call.cls, results, dom_params, value, files)} :
            /\ ret' = [op |-> "ascii_grid_2d", arg |-> value, again |-> FALSE,
                       exc |-> g.exc, val |-> <<>>]
            /\ files' = g.val
    /\ Frame

\* what dataframe() and the array accessors leave: no file is touched
FrameAnswer(df) == [exc |-> df.exc, val |-> df, files |-> files]
ArrayAnswer(a) == [exc |-> a.exc, val |-> a.val, files |-> files]

\* what a grid call leaves: what it raised, its arguments, the file
GridAnswer(g, given, nrows) == [exc |-> g.exc, val |-> <<given, nrows>>, files |-> g.val]
GridAnswer_2d(g) == [exc |-> g.exc, val |-> <<>>, files |-> g.val]

\* what the accessor op, called with arg (and, for ascii_grid, with the nrows
\* given), raises and returns on the object as it is, and the file it leaves
Answer(op, arg, given) ==
    CASE op = "cols" ->
           [exc |-> IF results = <<>> THEN "IndexError" ELSE "",
            val |-> IF results = <<>> THEN <<>> ELSE results[1], files |-> files]
      [] op = "csv" -> [exc |-> "", val |-> csv(results), files |-> files]
      [] op = "dataframe" ->
           FrameAnswer(dataframe(call.cls, results))
      [] op = "np_array" -> ArrayAnswer(np_array(call.cls, results, arg))
      [] op = "np_topo" -> ArrayAnswer(np_topo(call.cls, results))
      [] op = "np_depth" -> ArrayAnswer(np_depth(call.cls, results))
      [] op = "ascii_grid" ->
           GridAnswer(ascii_grid(call.cls, results, dom_params, arg,
                                 IF given = -1 THEN DefaultNRows ELSE given, files),
                      given, IF given = -1 THEN DefaultNRows ELSE given)
      [] op = "ascii_grid_2d" ->
           GridAnswer_2d(ascii_grid_2d(call.cls, results, dom_params, arg, files))

\* the caller makes the call it has just made a second time, on the same
\* object with the same arguments
Repeat ==
    /\ pc = "returned"
    /\ ~ret.again
    /\ \E a \in {Answer(ret.op, ret.arg,
                         IF ret.op = "ascii_grid" THEN ret.val[1] ELSE -1)} :
           /\ ret' = [op |-> ret.op, arg |-> ret.arg, again |-> TRUE,
                      exc |-> a.exc, val |-> a.val]
           /\ files' = a.files
    /\ Frame

\* the caller takes the result of the call; the object is ready for the next
Return ==
    /\ pc = "returned"
    /\ pc' = "done"
    /\ ret' = NoRet
    /\ UNCHANGED <<call, platform, path, exc, params, swashes_bin, lookups,
                   spawned, proc, raw_output, results, raw_comments, dom_params,
                   generated_by, files>>

Next ==
    \/ New
    \/ Validate
    \/ SetExecutable
    \/ Compute
    \/ ReadOutput
    \/ ReadComments
    \/ Cols
    \/ Csv
    \/ Dataframe
    \/ NpArray
    \/ NpTopo
    \/ NpDepth
    \/ AsciiGrid
    \/ AsciiGrid2D
    \/ Repeat
    \/ Return

Spec == Init /\ [][Next]_vars

(***************************************************************************)
(* Claims                                                                  *)
(***************************************************************************)
\* the constructor has gone past its input sanity check
Checked == pc \notin {"idle", "sanity_check"}

\* nothing outside the process was touched: no lookup, no solver run
NothingReached == lookups = 0 /\ spawned = <<>>

\* C1: a query of dimension 2 whose num_cell_y is None, zero or negative
\* always fails with ValueError, and neither the executable lookup nor the
\* solver is reached.
C1_CellYRequired ==
    (/\ Checked
     /\ Float(call.dimension).v = 20
     /\ \/ call.num_cell_y = None
        \/ (IsInstanceInt(call.num_cell_y) /\ call.num_cell_y.v <= 0))
    => (pc = "failed" /\ exc.type = "ValueError" /\ NothingReached)

\* C2: a query in which stype, domain, choice, num_cell_x or a supplied
\* num_cell_y is not an integer always fails with ValueError, whatever the
\* other parameters, before the executable is looked up or the solver run.
C2_NonIntegerRejected ==
    (/\ Checked
     /\ \/ ~IsInstanceInt(call.stype)
        \/ ~IsInstanceInt(call.domain)
        \/ ~IsInstanceInt(call.choice)
        \/ ~IsInstanceInt(call.num_cell_x)
        \/ (call.num_cell_y.t # "none" /\ ~IsInstanceInt(call.num_cell_y)))
    => (pc = "failed" /\ exc.type = "ValueError" /\ NothingReached)

\* C2 witness: a valid dimension, integers everywhere but in a supplied
\* num_cell_y, and the integer check has raised.
C2_Witness ==
    /\ pc = "failed"
    /\ call.dimension = PyFloat(15)
    /\ call.stype.t = "int" /\ call.domain.t = "int" /\ call.choice.t = "int"
    /\ call.num_cell_x.t = "int"
    /\ call.num_cell_y.t = "str"
    /\ exc = Raise("ValueError", "integer")
    /\ NothingReached

\* C3: a dimension that, as a float, is not 1, 1.5 or 2 always fails with
\* the ValueError of the dimension check, which is made first (also when
\* other parameters are invalid), with no lookup and no solver run.
C3_DimensionCheckedFirst ==
    (Checked /\ call.dimension.v \notin {10, 15, 20})
    => (pc = "failed" /\ exc = Raise("ValueError", "dimension") /\ NothingReached)

\* C3 witness: dimension 1.2 together with a non-integer stype has failed.
C3_Witness ==
    /\ pc = "failed"
    /\ call.dimension = PyFloat(12)
    /\ call.stype.t = "str"
    /\ exc.at = "dimension"

\* C4: an executable that cannot be resolved makes construction fail with
\* RuntimeError, and the solver is spawned only from a call that passed the
\* sanity check and whose executable the lookup resolved.
C4_SpawnAfterResolution ==
    /\ [](exc.at = "not found" =>
            /\ pc = "failed" /\ exc.type = "RuntimeError"
            /\ swashes_bin \notin path /\ spawned = <<>>)
    /\ [][spawned' # spawned =>
            /\ pc = "compute"
            /\ SanityCheck(call) = NoExc
            /\ lookups = 1
            /\ swashes_bin \in path
            /\ swashes_bin = (IF call.swashes_bin # "" THEN call.swashes_bin
                              ELSE IF platform = "Windows" THEN "swashes.exe"
                              ELSE "swashes")]_vars
    /\ [](Checked /\ pc # "set_executable" /\ exc.type # "ValueError"
          /\ swashes_bin \notin path => exc.at = "not found")

\* C4 witness: no path given, the platform's default name is not on the
\* PATH, and construction has failed without a spawn.
C4_Witness ==
    /\ pc = "failed"
    /\ call.swashes_bin = ""
    /\ platform = "Windows" /\ swashes_bin = "swashes.exe"
    /\ exc = Raise("RuntimeError", "not found")
    /\ lookups = 1 /\ spawned = <<>>

\* no table was parsed
NothingParsed == raw_output = <<>> /\ results = <<>> /\ raw_comments = <<>>

\* construction failed with the solver's RuntimeError, carrying the captured
\* stderr and the calling parameters
SolverError ==
    /\ pc = "failed"
    /\ exc.type = "RuntimeError" /\ exc.at = "swashes returned an error"
    /\ exc.stderr = proc.stderr /\ exc.params = params

Constructed == pc \in {"done", "returned"}

\* the canonical names of a class's label dictionary
CanonicalNames(cls) == {ColsOf(cls)[l] : l \in DOMAIN ColsOf(cls)}

ConformingRun ==
    /\ spawned # <<>>
    /\ proc.returncode = 0
    /\ pc \in {"done", "failed"}
    /\ LET argv == spawned[1]
           n == NX(argv) * NY(argv)
       IN  /\ Solvable(argv)
           /\ \A i \in 1..Len(HeaderLabels(argv)) :
                HeaderLabels(argv)[i] \in DOMAIN ColsOf(call.cls)
           /\ \E o \in Orders(n), v \in {1, 2} : raw_output = SolverText(argv, o, v)

C7_UnknownValue ==
    (/\ pc = "returned" /\ ret.op = "np_array"
     /\ results # <<>>
     /\ \A i \in 1..Len(results[1]) : results[1][i] # Word(ret.arg))
    => (ret.exc = "ValueError" /\ ret.val = <<>>)

\* the number of values of S below v, plus one
Rank(S, v) == Cardinality({u \in S : u < v}) + 1

\* C8: on a TwoDimensional object whose table holds each (x, y) pair of an
\* ncellx by ncelly grid exactly once, np_array(value) is a matrix of ncelly
\* rows and ncellx columns whose entry at (rank of y, rank of x) is the value
\* of the row (x, y), whatever the order of the rows.
C8_PivotShape ==
    (/\ pc = "returned" /\ ret.op = "np_array"
     /\ call.cls = "TwoDimensional"
     /\ results # <<>>
     /\ \E i \in 1..Len(results[1]) : results[1][i] = Word(ret.arg)
     /\ dom_params.ncellx.t = "float" /\ dom_params.ncelly.t = "float")
    => LET hdr == results[1]
           rows == Tail(results)
           px == CHOOSE i \in 1..Len(hdr) : hdr[i] = Word("x")
           py == CHOOSE i \in 1..Len(hdr) : hdr[i] = Word("y")
           pv == CHOOSE i \in 1..Len(hdr) : hdr[i] = Word(ret.arg)
           XV(r) == FloatOfToken(rows[r][px]).v
           YV(r) == FloatOfToken(rows[r][py]).v
           XS == {XV(r) : r \in 1..Len(rows)}
           YS == {YV(r) : r \in 1..Len(rows)}
           nx == dom_params.ncellx.v \div 10
           ny == dom_params.ncelly.v \div 10
       IN  (/\ Cardinality(XS) = nx /\ Cardinality(YS) = ny
            /\ Len(rows) = nx * ny
            /\ \A r, q \in 1..Len(rows) : (XV(r) = XV(q) /\ YV(r) = YV(q)) => r = q)
           => /\ ret.exc = ""
              /\ Len(ret.val) = ny
              /\ \A j \in 1..Len(ret.val) : Len(ret.val[j]) = nx
              /\ \A r \in 1..Len(rows) :
                   ret.val[Rank(YS, YV(r))][Rank(XS, XV(r))] = FloatOfToken(rows[r][pv])

\* C8 witness: a grid of two cells in x and one in y, its rows printed with
\* the larger x first, and np_array('depth') returned one row of two values.
C8_Witness ==
    /\ pc = "returned" /\ ret.op = "np_array" /\ ret.arg = "depth"
    /\ call.cls = "TwoDimensional"
    /\ ret.exc = ""
    /\ dom_params.ncellx = PyFloat(20) /\ dom_params.ncelly = PyFloat(10)
    /\ Len(results) = 3
    /\ FloatOfToken(results[2][1]).v > FloatOfToken(results[3][1]).v
    /\ Len(ret.val) = 1 /\ Len(ret.val[1]) = 2
    /\ ret.val[1][2] = FloatOfToken(results[2][3])

\* C9: OneDimensional.ascii_grid on an array of length n with r >= 1 rows
\* asked (3 when none is asked) writes NCOLS n, NROWS r and exactly r rows,
\* each the source array (nan written as the no-data value); it writes
\* whenever the array is numeric and as long as the cell count.
C9_EdgeReplication ==
    (pc = "returned" /\ ret.op = "ascii_grid")
    => LET a == np_array(call.cls, results, ret.arg)
           given == ret.val[1]
           r == ret.val[2]
           Shown(val) == IF val.t = "nan" THEN Fmt6(PyInt(-99999)) ELSE Fmt6(val)
       IN  /\ given = -1 => r = 3
           /\ ret.exc = "" =>
                /\ a.exc = "" /\ r >= 1
                /\ files.exists
                /\ files.NCOLS = Len(a.val) /\ files.NROWS = r
                /\ Len(files.rows) = r
                /\ \A k \in 1..r :
                     files.rows[k] = [i \in 1..Len(a.val) |-> Shown(a.val[i])]
           /\ (/\ a.exc = "" /\ r >= 1
               /\ \A i \in 1..Len(a.val) : a.val[i].t \in {"float", "nan"}
               /\ Len(a.val) = dom_params.ncellx.v \div 10)
              => ret.exc = ""

\* C9 witness: no nrows given, an array of two values, the first a nan: the
\* file has three rows of two values.
C9_Witness ==
    /\ pc = "returned" /\ ret.op = "ascii_grid" /\ ret.exc = ""
    /\ ret.val = <<-1, 3>>
    /\ files.exists /\ files.NCOLS = 2 /\ files.NROWS = 3
    /\ Len(files.rows) = 3 /\ Len(files.rows[1]) = 2
    /\ files.rows[1][1] = Num(-1, 99999, <<0, 0, 0, 0, 0, 0>>)
    /\ files.rows[1] = files.rows[3]

\* C10: for a table with its header row, dataframe() reads the text of csv()
\* back to the same names in the same order and, row by row, the numbers the
\* table's tokens denote, the first column (the first two for
\* TwoDimensional) keying the rows.
C10_RoundTrip ==
    (pc = "returned" /\ ret.op = "dataframe" /\ results # <<>>)
    => LET df == ret.val
           k == IF call.cls = "TwoDimensional" THEN 2 ELSE 1
           hdr == results[1]
           rows == Tail(results)
       IN  /\ ret.exc = ""
           /\ Len(df.index_names) = k
           /\ df.index_names \o df.columns = hdr
           /\ Len(df.index) = Len(rows) /\ Len(df.data) = Len(rows)
           /\ \A r \in 1..Len(rows) :
                /\ Len(df.index[r]) + Len(df.data[r]) = Len(rows[r])
                /\ \A c \in 1..Len(rows[r]) :
                     (IF c <= k THEN df.index[r][c] ELSE df.data[r][c - k])
                         = FloatOfToken(rows[r][c])

\* C10 witness: a TwoDimensional table of several rows, one of its values
\* printed as a whole number, read back as that number.
C10_Witness ==
    /\ pc = "returned" /\ ret.op = "dataframe" /\ ret.exc = ""
    /\ call.cls = "TwoDimensional"
    /\ Len(results) >= 3
    /\ Len(ret.val.index_names) = 2
    /\ \E c \in 3..Len(results[2]) :
         /\ results[2][c].k = "num" /\ results[2][c].fp = <<>>
         /\ ret.val.data[1][c - 2] = PyFloat(10 * results[2][c].ip)

\* C11: the solver is spawned once per object, during construction; every
\* accessor call leaves params, raw_output, results, raw_comments and
\* dom_params as they are and spawns nothing, and the same call made again
\* raises and returns the same.
C11_InvokedOnce ==
    /\ [](Len(spawned) <= 1 /\ (Constructed => Len(spawned) = 1))
    /\ [][(pc = "done" \/ pc = "returned") =>
            (UNCHANGED <<params, raw_output, results, raw_comments, dom_params,
                         spawned>>)]_vars
    /\ [][(pc = "returned" /\ pc' = "returned") =>
            (ret'.exc = ret.exc /\ ret'.val = ret.val)]_vars

\* C11 witness: np_array('depth') called a second time on a constructed
\* object has returned its array, the solver having run once.
C11_Witness ==
    /\ pc = "returned" /\ ret.again
    /\ ret.op = "np_array" /\ ret.arg = "depth"
    /\ ret.exc = "" /\ Len(ret.val) >= 2
    /\ Len(spawned) = 1

\* the output parser has gone over a solver text of at least one line
Parsed == raw_output # <<>> /\ pc # "read_output"

\* the exceptions the output parser raises
ParserFailed == exc.type \in {"NameError", "KeyError"}

\* C12: the last line of the solver's text is classified by the comment test
\* on itself alone: a comment becomes the header row and no metadata
\* comment, anything else a data row, also when the text is one line.
C12_LastLine ==
    Parsed =>
        LET last == raw_output[Len(raw_output)]
            cols == ColsOf(call.cls)
        IN  IF last.c
            THEN /\ exc.type # "NameError"
                 /\ ~ParserFailed =>
                      /\ results # <<>>
                      /\ KnownLabels(last.toks, cols)
                      /\ results[Len(results)] = ColHeaders(last.toks, cols)
                      /\ Len(raw_comments)
                            < Cardinality({i \in 1..Len(raw_output) : raw_output[i].c})
            ELSE ~ParserFailed =>
                      (results # <<>> /\ results[Len(results)] = last.toks)

\* C13: the parser puts every line of the solver's text in one class, in the
\* order of the text: a comment followed by a comment is a metadata comment,
\* a comment not followed by a comment is a header row of canonical names,
\* any other line is a data row; a comment block followed by data lines
\* gives one header row and one data row per line that is not a comment.
C13_Classes ==
    (Parsed /\ ~ParserFailed) =>
        LET out == raw_output
            n == Len(out)
            cols == ColsOf(call.cls)
            IsMeta(i) == out[i].c /\ i < n /\ out[i + 1].c
            IsRow(i) == ~IsMeta(i)
            idx == [i \in 1..n |-> i]
            metas == SelectSeq(idx, IsMeta)
            rows == SelectSeq(idx, IsRow)
        IN  /\ raw_comments = [k \in 1..Len(metas) |-> out[metas[k]].toks]
            /\ Len(results) = Len(rows)
            /\ \A k \in 1..Len(rows) :
                 IF out[rows[k]].c
                 THEN /\ KnownLabels(out[rows[k]].toks, cols)
                      /\ results[k] = ColHeaders(out[rows[k]].toks, cols)
                 ELSE results[k] = out[rows[k]].toks

\* the dictionary of a dimension: the 2-D labels for 2, the 1-D labels for
\* 1 and 1.5
DictOfDimension(d) == IF Float(d).v = 20 THEN COLS_2D ELSE COLS

\* C14: the header line is mapped through the dictionary of the query's
\* dimension, whatever class made the query: its labels found there, the
\* header row is their canonical names; a label absent from it, construction
\* fails with KeyError and no table is produced.
C14_DimensionDictionary ==
    Parsed =>
        LET out == raw_output
            heads == {i \in 1..(Len(out) - 1) : out[i].c /\ ~out[i + 1].c}
            dict == DictOfDimension(call.dimension)
        IN  heads # {} =>
                LET h == CHOOSE i \in heads : \A j \in heads : i <= j
                IN  IF KnownLabels(out[h].toks, dict)
                    THEN /\ exc.type # "KeyError"
                         /\ \E k \in 1..Len(results) :
                              results[k] = ColHeaders(out[h].toks, dict)
                    ELSE /\ pc = "failed" /\ exc.type = "KeyError"
                         /\ dom_params = NoDomParams

\* C15: on a constructed object the cell count in x read from the metadata
\* is the query's num_cell_x and, when the query gave a num_cell_y, the cell
\* count in y read from the metadata is that num_cell_y.
C15_CellCounts ==
    Constructed =>
        /\ PyEq(dom_params.ncellx, Float(call.num_cell_x))
        /\ call.num_cell_y # None =>
             PyEq(dom_params.ncelly, Float(call.num_cell_y))

\* the i-th metadata comment starts with the k-th checked label and the
\* number after its colon is not the query's k-th field
EchoMismatch(i, k) ==
    /\ startswith(raw_comments[i], CheckedLabels[k])
    /\ ~PyEq(get_number_from_str(raw_comments[i]),
             Float(<<call.dimension, call.stype, call.domain, call.choice>>[k]))

\* C16: a metadata comment that starts with 'Dimension:', 'Type:', 'Domain:'
\* or 'Choice:' and whose number is not the query's dimension, stype, domain
\* or choice, in that order, aborts construction: no constructed object has
\* such a comment.
C16_EchoChecked ==
    (/\ pc \in {"done", "returned", "failed"}
     /\ \E i \in 1..Len(raw_comments), k \in 1..4 : EchoMismatch(i, k))
    => (pc = "failed" /\ exc.type \in {"AssertionError", "IndexError", "ValueError",
                                        "KeyError", "NameError"})

\* C16 witness: the solver echoed another type than the one asked for and
\* construction has failed on the comparison of 'Type:'.
C16_Witness ==
    /\ pc = "failed"
    /\ exc = Raise("AssertionError", "Type:")
    /\ \E i \in 1..Len(raw_comments) : EchoMismatch(i, 2)
    /\ \A i \in 1..Len(raw_comments) : ~EchoMismatch(i, 1)

\* C17: a grid file, written by OneDimensional.ascii_grid or by
\* TwoDimensional.ascii_grid, has as many rows as its NROWS and as many values
\* in each row as its NCOLS; a call that raises, the shape assertions
\* included, leaves the file as it was.
C17_HeaderMatchesArray ==
    /\ [](files.exists =>
            /\ Len(files.rows) = files.NROWS
            /\ \A r \in 1..Len(files.rows) : Len(files.rows[r]) = files.NCOLS)
    /\ [][ret'.exc # "" => files' = files]_vars

\* C17 witness: a TwoDimensional table one row short of its grid: the pivot
\* has fewer columns than ncellx, ascii_grid raised on the assertion and no
\* file exists.
C17_Witness ==
    /\ pc = "returned" /\ ret.op = "ascii_grid_2d" /\ ret.arg = "depth"
    /\ ret.exc = "AssertionError"
    /\ Len(results) - 1 < Trunc(dom_params.ncellx) * Trunc(dom_params.ncelly)
    /\ ~files.exists

\* C18: the command line of the solver is the executable, then the texts of
\* dimension, stype, domain, choice and num_cell_x in that order, then the
\* text of num_cell_y exactly when the constructor was given one: six words
\* without it, seven with it.
C18_CommandLine ==
    spawned # <<>> =>
        LET argv == spawned[1]
        IN  /\ Len(argv) = (IF call.num_cell_y = None THEN 6 ELSE 7)
            /\ argv[1] = Word(swashes_bin)
            /\ argv[2] = Str(call.dimension)
            /\ argv[3] = Str(call.stype)
            /\ argv[4] = Str(call.domain)
            /\ argv[5] = Str(call.choice)
            /\ argv[6] = Str(call.num_cell_x)
            /\ call.num_cell_y # None => argv[7] = Str(call.num_cell_y)

\* C18 witness: TwoDimensional(1, 2, 3, 2, 1) on Linux has spawned
\* 'swashes 2.0 1 2 3 2 1'.
C18_Witness ==
    /\ call.cls = "TwoDimensional"
    /\ spawned = <<(<<Word("swashes"), Dec(2, 0), Lit(1), Lit(2), Lit(3), Lit(2),
                      Lit(1)>>)>>

\* C19: on a constructed object, np_array(name) of a name that cols()
\* returns, the coordinate columns included, raises nothing; outside
\* TwoDimensional it returns the values of that column in the order of the
\* rows.
C19_EveryColumn ==
    (/\ pc = "returned" /\ ret.op = "np_array"
     /\ results # <<>>
     /\ \E i \in 1..Len(results[1]) : results[1][i] = Word(ret.arg))
    => /\ ret.exc = ""
       /\ call.cls # "TwoDimensional" =>
            LET c == CHOOSE i \in 1..Len(results[1]) : results[1][i] = Word(ret.arg)
            IN  ret.val = [r \in 1..(Len(results) - 1) |-> FloatOfToken(results[r + 1][c])]

====
